---- MODULE Spec2Model ----
(***************************************************************************)
(* A state-machine model of pycel's ExcelCompiler                          *)
(* (src/src/pycel/excelcompiler.py): the lazily built dependency graph,    *)
(* memoized evaluation, the invalidation cascade of set_value,             *)
(* recalculate and trim_graph, over one small workbook.                    *)
(*                                                                         *)
(* Python objects are modelled by keys <<address, generation>>: the n-th   *)
(* node object ever created for an address is <<address, n>>.  cell_map    *)
(* maps an address to the generation it currently holds (0: no entry);     *)
(* the networkx graph keeps node objects, so it holds keys, also of        *)
(* objects that cell_map no longer refers to.                              *)
(***************************************************************************)
EXTENDS Integers, Sequences, FiniteSets, TLC

\* Most trim_graph calls in one run (each lets the removed nodes be built
\* again as new objects, so the object heap grows with every trim).
MaxTrims == 1

\* Most nested _evaluate calls the interpreter allows: one more raises
\* RecursionError (sys.getrecursionlimit(), scaled down to the workbook).
RecursionLimit == 6

---------------------------------------------------------------------------
(* Addresses.  Every address carries its sheet; the sheet is left out of   *)
(* the names.                                                              *)

CellAddrs == {"A1", "B1", "C1", "A2", "B2", "D1"}
BoundedRanges == {"A1:B2"}
UnboundedRanges == {"A:B"}
Addrs == CellAddrs \cup BoundedRanges \cup UnboundedRanges
\* The cell whose formula reads the unbounded range, and every address of
\* the workbook.
IndirectAddrs == {"E1"}
\* The two cells of the circular reference.
CycleAddrs == {"F1", "G1"}
AllAddrs == Addrs \cup IndirectAddrs \cup CycleAddrs

\* AddressRange.is_range
is_range(a) == a \in BoundedRanges \cup UnboundedRanges

\* AddressRange.resolve_range of the one bounded range: rows of member
\* addresses.
resolve_range(a) == << <<"A1", "B1">>, <<"A2", "B2">> >>

RECURSIVE flatten(_)
flatten(rows) ==
    IF rows = <<>> THEN <<>> ELSE Head(rows) \o flatten(Tail(rows))

\* A fixed enumeration of all addresses (used where the code iterates a dict
\* or an adjacency view and the outcome does not depend on the order).
AddrOrder == <<"A1", "B1", "C1", "A2", "B2", "D1", "A1:B2", "A:B", "E1",
               "F1", "G1">>

---------------------------------------------------------------------------
(* Values: None, numbers, address references, nested tuples, error.        *)

NoneV == [t |-> "none"]
IntV(n) == [t |-> "int", n |-> n]
RefV(a) == [t |-> "ref", a |-> a]
MatV(m) == [t |-> "mat", m |-> m]
VALUE_ERROR == [t |-> "err"]

list_like(v) == v.t = "mat"

---------------------------------------------------------------------------
(* Formulas: what the formula front-end gives for a formula text: the      *)
(* addresses it reads and how it computes.                                 *)

NoFormula == [op |-> "", args |-> <<>>, k |-> 0]
Mul(a, k) == [op |-> "mul", args |-> <<a>>, k |-> k]
Add(a, k) == [op |-> "add", args |-> <<a>>, k |-> k]
Sum(r) == [op |-> "sum", args |-> <<r>>, k |-> 0]
\* REF_FORMAT.format(address)
REF_FORMAT(a) == [op |-> "ref", args |-> <<a>>, k |-> 0]

\* An empty operand counts as 0 in arithmetic.
Num(v) == IF v.t = "int" THEN v.n ELSE 0

RECURSIVE SumSeq(_)
SumSeq(vs) == IF vs = <<>> THEN 0 ELSE Num(Head(vs)) + SumSeq(Tail(vs))

---------------------------------------------------------------------------
(* The workbook behind the data source:                                    *)
(*   A1 = 2   B1 = A1*3   C1 = B1+1   D1 = SUM(A1:B2)                      *)
(*   A2 = 4   B2 empty                      E1 = SUM(A:B)                  *)
(*   F1 = G1+1   G1 = F1*3   (a circular reference)                        *)
(* With cached = TRUE the file stores the values the spreadsheet           *)
(* application computed for the formula cells; with FALSE it stores none.  *)

SheetFormula(a) ==
    CASE a = "B1" -> Mul("A1", 3)
      [] a = "C1" -> Add("B1", 1)
      [] a = "D1" -> Sum("A1:B2")
      [] a = "E1" -> Sum("A:B")
      [] a = "F1" -> Add("G1", 1)
      [] a = "G1" -> Mul("F1", 3)
      [] OTHER -> NoFormula

SheetValue(a, cached) ==
    CASE a = "A1" -> IntV(2)
      [] a = "A2" -> IntV(4)
      [] a = "B1" -> IF cached THEN IntV(6) ELSE NoneV
      [] a = "C1" -> IF cached THEN IntV(7) ELSE NoneV
      [] a = "D1" -> IF cached THEN IntV(12) ELSE NoneV
      [] a = "E1" -> IF cached THEN IntV(12) ELSE NoneV
      [] a = "F1" -> IF cached THEN IntV(1) ELSE NoneV
      [] a = "G1" -> IF cached THEN IntV(0) ELSE NoneV
      [] OTHER -> NoneV

\* The address the data source resolves a requested address to: an
\* unbounded range collapses to the used bounded range.
ResolvedAddress(a) == IF a \in UnboundedRanges THEN "A1:B2" ELSE a

\* excel.get_range: scalar in, scalar out; range in, row-major matrices out.
get_range(a, cached) ==
    LET ra == ResolvedAddress(a)
    IN  IF is_range(a)
        THEN [address |-> ra,
              formulas |-> [i \in 1..2 |-> [j \in 1..2 |->
                               SheetFormula(resolve_range(ra)[i][j])]],
              values |-> [i \in 1..2 |-> [j \in 1..2 |->
                               SheetValue(resolve_range(ra)[i][j], cached)]]]
        ELSE [address |-> a,
              formulas |-> SheetFormula(a),
              values |-> SheetValue(a, cached)]

---------------------------------------------------------------------------
(* The text record of a saved compiler: the entries of its cell_map in file *)
(* order, each <<address, entry>>, the entry being "=" and the formula code *)
(* or a value.  _CompiledImporter serves it in place of the workbook.       *)

\* '=' + a_cell.formula.python_code
Code(f) == [t |-> "code", f |-> f]

\* dict.get(str(address)): the entry of the address, None without one
RECURSIVE Lookup(_, _)
Lookup(data, a) ==
    IF data = <<>> THEN NoneV
    ELSE IF Head(data)[1] = a THEN Head(data)[2]
    ELSE Lookup(Tail(data), a)

\* _CompiledImporter._get_cell: the formula and the value of one record
importer_formula(data, a) ==
    IF Lookup(data, a).t = "code" THEN Lookup(data, a).f ELSE NoFormula

\* _get_cell returning the record as the value whatever it is
importer_value_of_code(data, a) == Lookup(data, a)

importer_value(data, a) ==
    IF Lookup(data, a).t = "code" THEN NoneV ELSE Lookup(data, a)

\* _CompiledImporter.get_range on an unbounded range: the record has to be
\* a reference ("assert formula.startswith(REF_START)")
importer_asserts(data, a) ==
    a \in UnboundedRanges /\ importer_formula(data, a).op # "ref"

\* _CompiledImporter.get_range
importer_get_range(data, a) ==
    LET ra == IF a \in UnboundedRanges /\ ~importer_asserts(data, a)
              THEN importer_formula(data, a).args[1] ELSE a
    IN  IF is_range(a)
        THEN [address |-> ra,
              formulas |-> [i \in 1..2 |-> [j \in 1..2 |->
                               importer_formula(data, resolve_range(ra)[i][j])]],
              values |-> [i \in 1..2 |-> [j \in 1..2 |->
                               importer_value(data, resolve_range(ra)[i][j])]]]
        ELSE [address |-> a,
              formulas |-> importer_formula(data, a),
              values |-> importer_value(data, a)]

---------------------------------------------------------------------------
(* The object heap threaded through one call.                              *)
(*   objs[a]      the node objects ever created for address a              *)
(*   cell_map[a]  0, or the generation cell_map holds for a                *)
(*   gnodes, gedges   dep_graph                                            *)
(*   graph_todos, range_todos   the work queues                            *)
(*   cached       the workbook variant behind self.excel                   *)
(*   excel        what self.excel is: "workbook", "importer" (with data,   *)
(*                the text record it serves) or "None"                     *)
(*   unpickled    the instance was restored by __setstate__: its           *)
(*                graph_todos and range_todos are None                     *)
(*   ran, resets, fetched, err   what the call did: formulas invoked,      *)
(*   nodes reset, addresses fetched from the data source, the exception    *)
(*   that ended it ("" when it returned)                                   *)
(*   frames, deep   the _evaluate calls now on the call stack, and the     *)
(*   most there have been during the call                                  *)

\* _Cell.__init__
_Cell(value, formula) == [kind |-> "cell", value |-> value, formula |-> formula]
\* _CellRange.__init__
_CellRange == [kind |-> "range", value |-> NoneV, formula |-> NoFormula]

InMap(h, a) == h.cell_map[a] # 0
Key(h, a) == <<a, h.cell_map[a]>>
Node(h, key) == h.objs[key[1]][key[2]]

SetVal(h, key, v) == [h EXCEPT !.objs[key[1]][key[2]].value = v]
SetFormula(h, key, f) == [h EXCEPT !.objs[key[1]][key[2]].formula = f]

\* self.cell_map[a] = <a new object>
NewNode(h, a, node) ==
    [h EXCEPT !.objs[a] = Append(@, node), !.cell_map[a] = Len(h.objs[a]) + 1]

Raise(h, exc) == [h EXCEPT !.err = exc]

\* _Cell.needed_addresses / _CellRange.needed_addresses
needed_addresses(key, node) ==
    IF node.kind = "range" THEN flatten(resolve_range(key[1]))
    ELSE node.formula.args

\* dep_graph.successors(node), in the fixed address order
successors(h, key) ==
    LET S == {e[2] : e \in {e \in h.gedges : e[1] = key}}
        RECURSIVE gens(_, _)
        gens(a, g) == IF g > Len(h.objs[a]) THEN <<>>
                      ELSE (IF <<a, g>> \in S THEN << <<a, g>> >> ELSE <<>>)
                           \o gens(a, g + 1)
        RECURSIVE walk(_)
        walk(i) == IF i > Len(AddrOrder) THEN <<>>
                   ELSE gens(AddrOrder[i], 1) \o walk(i + 1)
    IN  walk(1)

---------------------------------------------------------------------------
(* Invalidation: ExcelCompiler._reset                                      *)

RECURSIVE _reset(_, _), ResetChildren(_, _)

\* _reset without the walk over the successors
_reset_no_cascade(h, key) ==
    IF Node(h, key).value = NoneV THEN h
    ELSE [SetVal(h, key, NoneV) EXCEPT !.resets = Append(@, key)]

_reset(h, key) ==
    IF Node(h, key).value = NoneV THEN h
    ELSE LET h1 == [SetVal(h, key, NoneV) EXCEPT !.resets = Append(@, key)]
         IN  IF key \in h1.gnodes
             THEN ResetChildren(h1, successors(h1, key))
             ELSE h1

\* for child_cell in successors: if child_cell.value is not None: _reset
ResetChildren(h, kids) ==
    IF kids = <<>> THEN h
    ELSE ResetChildren(
             IF Node(h, Head(kids)).value # NoneV THEN _reset(h, Head(kids))
             ELSE h,
             Tail(kids))

---------------------------------------------------------------------------
(* Graph builder and evaluator.  Each takes the heap and returns the heap  *)
(* (the evaluators: the heap and the value returned); once err is set the  *)
(* exception is propagating and the remaining steps do nothing.            *)

\* add_node_to_graph in _make_cells
add_node_to_graph(h, key) ==
    [h EXCEPT !.gnodes = @ \cup {key}, !.graph_todos = Append(@, key)]

\* dep_graph.add_edge(u, v)
add_edge(h, u, v) ==
    [h EXCEPT !.gnodes = @ \cup {u, v}, !.gedges = @ \cup {<<u, v>>}]

\* build_cell in _make_cells: the keys of the new nodes
build_cell(h, excel_cell) ==
    LET a == excel_cell.address
        h1 == NewNode(h, a, _Cell(excel_cell.values, excel_cell.formulas))
    IN  [h |-> h1, nodes |-> << Key(h1, a) >>]

\* the member loop of build_range: one _Cell per member that is not in
\* cell_map and is not empty
RECURSIVE build_members(_, _, _, _)
build_members(h, addrs, fs, vs) ==
    IF addrs = <<>> THEN [h |-> h, nodes |-> <<>>]
    ELSE LET a == Head(addrs)
             make == ~InMap(h, a) /\ ~(Head(fs) = NoFormula /\ Head(vs) = NoneV)
             h1 == IF make THEN NewNode(h, a, _Cell(Head(vs), Head(fs))) ELSE h
             rest == build_members(h1, Tail(addrs), Tail(fs), Tail(vs))
         IN  [h |-> rest.h,
              nodes |-> (IF make THEN << Key(h1, a) >> ELSE <<>>) \o rest.nodes]

\* build_range in _make_cells: the range object is created first and put
\* into cell_map last, over whatever the address held
build_range(h, excel_range) ==
    LET ra == excel_range.address
        rkey == <<ra, Len(h.objs[ra]) + 1>>
        m == build_members(h, flatten(resolve_range(ra)),
                           flatten(excel_range.formulas),
                           flatten(excel_range.values))
        h1 == NewNode(m.h, ra, _CellRange)
    IN  [h |-> h1, nodes |-> << rkey >> \o m.nodes]

RECURSIVE add_new_nodes(_, _)
add_new_nodes(h, nodes) ==
    IF nodes = <<>> THEN h
    ELSE LET n == Node(h, Head(nodes))
             h1 == IF n.kind = "range" \/ n.formula # NoFormula
                   THEN add_node_to_graph(h, Head(nodes)) ELSE h
         IN  add_new_nodes(h1, Tail(nodes))

\* ExcelCompiler._make_cells
_make_cells(h, address) ==
    IF InMap(h, address) THEN Raise(h, "AssertionError")
    ELSE IF h.excel = "None" THEN Raise(h, "AttributeError")
    ELSE IF h.excel = "importer" /\ importer_asserts(h.data, address)
    THEN Raise(h, "AssertionError")
    ELSE
    LET excel_data == IF h.excel = "importer"
                      THEN importer_get_range(h.data, address)
                      ELSE get_range(address, h.cached)
        h0 == [h EXCEPT !.fetched = Append(@, address)]
        built ==
            IF is_range(address)
            THEN LET h1 == IF excel_data.address # address
                           THEN NewNode(h0, address,
                                    _Cell(NoneV, REF_FORMAT(excel_data.address)))
                           ELSE h0
                     h2 == [h1 EXCEPT !.range_todos =
                                          Append(@, excel_data.address)]
                 IN  build_range(h2, excel_data)
            ELSE build_cell(h0, excel_data)
    IN  add_new_nodes(built.h, built.nodes)

RECURSIVE _evaluate(_, _), _evaluate_range(_, _), eval(_, _, _)
RECURSIVE evaluate_cells(_, _), _gen_graph(_, _, _), _process_gen_graph(_)
RECURSIVE drain_todos(_), connect(_, _, _), eval_ranges(_, _)

\* _gen_graph after _make_cells: "if not recursed: self._process_gen_graph()"
process_seed(h, recursed) ==
    IF recursed \/ h.err # "" THEN h ELSE _process_gen_graph(h)

\* _gen_graph without the return for a seed that is in cell_map
_gen_graph_no_return(h, seed, recursed) ==
    IF h.err # "" THEN h
    ELSE process_seed(_make_cells(h, seed), recursed)

\* ExcelCompiler._gen_graph for one seed address
_gen_graph(h, seed, recursed) ==
    IF h.err # "" THEN h
    ELSE IF InMap(h, seed) THEN h
    ELSE process_seed(_make_cells(h, seed), recursed)

\* self.dep_graph.add_edge(self.cell_map[precedent], dependant), then the
\* remaining precedents
connect_edge(h, p, dependant, precedents) ==
    IF h.err # "" THEN h
    ELSE connect(add_edge(h, Key(h, p), dependant), dependant, precedents)

\* the loop over dependant.needed_addresses in _process_gen_graph
connect(h, dependant, precedents) ==
    IF h.err # "" \/ precedents = <<>> THEN h
    ELSE connect_edge(IF ~InMap(h, Head(precedents))
                      THEN _gen_graph(h, Head(precedents), TRUE) ELSE h,
                      Head(precedents), dependant, Tail(precedents))

\* while self.graph_todos: dependant = self.graph_todos.pop() ...
drain_todos(h) ==
    IF h.err # "" \/ h.graph_todos = <<>> THEN h
    ELSE LET n == Len(h.graph_todos)
             dependant == h.graph_todos[n]
             h1 == [h EXCEPT !.graph_todos = SubSeq(@, 1, n - 1)]
         IN  drain_todos(connect(h1, dependant,
                 needed_addresses(dependant, Node(h1, dependant))))

\* for range_todo in reversed(self.range_todos): self._evaluate_range(...)
eval_ranges(h, todos) ==
    IF h.err # "" \/ todos = <<>> THEN h
    ELSE eval_ranges(_evaluate_range(h, todos[Len(todos)]).h,
                     SubSeq(todos, 1, Len(todos) - 1))

\* self.range_todos = []
clear_range_todos(h) ==
    IF h.err # "" THEN h ELSE [h EXCEPT !.range_todos = <<>>]

\* the second half of _process_gen_graph: the values of the ranges
process_ranges(h) == clear_range_todos(eval_ranges(h, h.range_todos))

\* ExcelCompiler._process_gen_graph: "while self.graph_todos" passes over a
\* queue that is None, "reversed(self.range_todos)" raises on one
_process_gen_graph(h) ==
    IF h.unpickled THEN Raise(h, "TypeError")
    ELSE process_ranges(drain_todos(h))

\* what the compiled formula f computes from its evaluated operand r
apply_formula(f, r) ==
    [h |-> r.h,
     v |-> CASE f.op = "mul" -> IntV(Num(r.v) * f.k)
             [] f.op = "add" -> IntV(Num(r.v) + f.k)
             [] f.op = "sum" -> IF r.v.t = "mat"
                                THEN IntV(SumSeq(flatten(r.v.m)))
                                ELSE VALUE_ERROR]

\* the formula of the cell key has been invoked
invoked(h, key) == [h EXCEPT !.ran = Append(@, key[1])]

\* self.eval(cell.formula): the compiled formula run against the
\* evaluation context (_C_ is _evaluate, _R_ is _evaluate_range, _REF_
\* builds the address)
eval(h, key, f) ==
    IF f.op = "ref" THEN [h |-> invoked(h, key), v |-> RefV(f.args[1])]
    ELSE apply_formula(f, IF f.op = "sum"
                          THEN _evaluate_range(invoked(h, key), f.args[1])
                          ELSE _evaluate(invoked(h, key), f.args[1]))

\* one more member value in front of the values of the remaining members
join_cells(v, rest) == [h |-> rest.h, vs |-> <<v>> \o rest.vs]

\* the member r has been evaluated: on to the remaining members
next_cells(r, addrs) == join_cells(r.v, evaluate_cells(r.h, addrs))

\* tuple(self._evaluate(addr.address) for addr in row), over the flattened
\* members
evaluate_cells(h, addrs) ==
    IF addrs = <<>> THEN [h |-> h, vs |-> <<>>]
    ELSE next_cells(_evaluate(h, Head(addrs)), Tail(addrs))

\* data = tuple(tuple(...) for row in addresses), from the member values
range_data(rows, vs) ==
    MatV([i \in 1..Len(rows) |-> [j \in 1..Len(rows[i]) |->
             vs[(i - 1) * Len(rows[1]) + j]]])

\* _evaluate_range without the store of the assembled rows on the range
range_not_stored(r, key) ==
    [h |-> r.h,
     v |-> IF r.h.err # "" THEN NoneV
           ELSE range_data(resolve_range(key[1]), r.vs)]

\* cell_range.value = data; return cell_range.value
store_range(r, key) ==
    IF r.h.err # "" THEN [h |-> r.h, v |-> NoneV]
    ELSE [h |-> SetVal(r.h, key, range_data(resolve_range(key[1]), r.vs)),
          v |-> range_data(resolve_range(key[1]), r.vs)]

\* _evaluate_range once the range has a node
range_value(h, address) ==
    IF h.err # "" THEN [h |-> h, v |-> NoneV]
    ELSE IF Node(h, Key(h, address)).value # NoneV
    THEN [h |-> h, v |-> Node(h, Key(h, address)).value]
    ELSE IF Node(h, Key(h, address)).kind # "range"
    THEN [h |-> Raise(h, "AttributeError"), v |-> NoneV]
    ELSE store_range(evaluate_cells(h, flatten(resolve_range(address))),
                     Key(h, address))

\* ExcelCompiler._evaluate_range
_evaluate_range(h, address) ==
    IF h.err # "" THEN [h |-> h, v |-> NoneV]
    ELSE range_value(IF ~InMap(h, address)
                     THEN _gen_graph(h, address, FALSE) ELSE h,
                     address)

\* cell.value = VALUE_ERROR if list_like(value) else value
store_value(r, key) ==
    IF r.h.err # "" THEN r.h
    ELSE SetVal(r.h, key, IF list_like(r.v) THEN VALUE_ERROR ELSE r.v)

\* the end of _evaluate: a reference is dereferenced, any other value
\* returned
return_value(h, key) ==
    IF h.err # "" THEN [h |-> h, v |-> NoneV]
    ELSE IF Node(h, key).value.t = "ref"
    THEN _evaluate(h, Node(h, key).value.a)
    ELSE [h |-> h, v |-> Node(h, key).value]

\* _evaluate without the test "if cell.value is None"
_evaluate_no_memo(h, address) ==
    IF h.err # "" THEN [h |-> h, v |-> NoneV]
    ELSE IF ~InMap(h, address) THEN [h |-> Raise(h, "KeyError"), v |-> NoneV]
    ELSE
    LET key == Key(h, address)
        cell == Node(h, key)
    IN  return_value(
            IF cell.kind = "range" THEN _evaluate_range(h, address).h
            ELSE IF cell.formula # NoFormula
            THEN store_value(eval(h, key, cell.formula), key)
            ELSE h,
            key)

\* a call of _evaluate goes onto the call stack
enter(h) ==
    [h EXCEPT !.frames = @ + 1,
              !.deep = IF h.frames + 1 > @ THEN h.frames + 1 ELSE @]

\* a call of _evaluate that stays on the call stack
leave_keeps_frame(r) == r

\* and comes off it when it returns or raises
leave(r) == [r EXCEPT !.h.frames = @ - 1]

\* the body of _evaluate
evaluate_cell(h, address) ==
    IF ~InMap(h, address) THEN [h |-> Raise(h, "KeyError"), v |-> NoneV]
    ELSE
    LET key == Key(h, address)
        cell == Node(h, key)
    IN  return_value(
            IF cell.value # NoneV THEN h
            ELSE IF cell.kind = "range" THEN _evaluate_range(h, address).h
            ELSE IF cell.formula # NoFormula
            THEN store_value(eval(h, key, cell.formula), key)
            ELSE h,
            key)

\* ExcelCompiler._evaluate
_evaluate(h, address) ==
    IF h.err # "" THEN [h |-> h, v |-> NoneV]
    ELSE IF h.frames >= RecursionLimit
    THEN [h |-> Raise(h, "RecursionError"), v |-> NoneV]
    ELSE leave(evaluate_cell(enter(h), address))

\* ExcelCompiler.evaluate, for one address
evaluate(h, address) ==
    _evaluate(IF ~InMap(h, address) THEN _gen_graph(h, address, FALSE) ELSE h,
              address)

\* set_value without the comparison with the cached value
set_value_always(h, address, value) ==
    IF ~InMap(h, address) THEN Raise(h, "AssertionError")
    ELSE
    LET key == Key(h, address)
        h1 == IF Node(h, key).value = NoneV THEN SetVal(h, key, value) ELSE h
    IN  SetVal(_reset(h1, key), key, value)

\* set_value that gives an address without a node a new formula-less cell
set_value_creates(h, address, value) ==
    IF ~InMap(h, address) THEN NewNode(h, address, _Cell(value, NoFormula))
    ELSE
    LET key == Key(h, address)
        cell_or_range == Node(h, key)
    IN  IF cell_or_range.value # value
        THEN SetVal(_reset(IF cell_or_range.value = NoneV
                           THEN SetVal(h, key, value) ELSE h, key),
                    key, value)
        ELSE h

\* set_value without "if cell_or_range.value is None: cell_or_range.value =
\* value": the reset of an unset target returns at once
set_value_unset_no_reset(h, address, value) ==
    IF ~InMap(h, address) THEN Raise(h, "AssertionError")
    ELSE IF Node(h, Key(h, address)).value # value
    THEN SetVal(_reset(h, Key(h, address)), Key(h, address), value)
    ELSE h

\* ExcelCompiler.set_value, the scalar branch
set_value(h, address, value) ==
    IF ~InMap(h, address) THEN Raise(h, "AssertionError")
    ELSE
    LET key == Key(h, address)
        cell_or_range == Node(h, key)
    IN  IF cell_or_range.value # value
        THEN LET h1 == IF cell_or_range.value = NoneV
                       THEN SetVal(h, key, value) ELSE h
                 h2 == _reset(h1, key)
             IN  SetVal(h2, key, value)
        ELSE h

\* The address argument of an array set_value: one range address
\* ([t |-> "addr"]) or a list of cell addresses ([t |-> "list"]).
AddrArg(a) == [t |-> "addr", a |-> a]
ListArg(l) == [t |-> "list", l |-> l]

\* address = tuple(...): the flattened list, or the flattened members of the
\* range
array_addresses(address) ==
    IF address.t = "list" THEN address.l
    ELSE flatten(resolve_range(address.a))

\* for addr, val in zip(address, value): self.set_value(addr, val)
RECURSIVE set_pairs(_, _, _)
set_pairs(h, addrs, vals) ==
    IF h.err # "" \/ addrs = <<>> \/ vals = <<>> THEN h
    ELSE set_pairs(set_value(h, Head(addrs), Head(vals)),
                   Tail(addrs), Tail(vals))

\* the list branch without "assert len(address) == len(value)"
set_flat_unchecked(h, addrs, vals) == set_pairs(h, addrs, vals)

\* assert len(address) == len(value), then the loop over the pairs
set_flat(h, addrs, vals) ==
    IF Len(addrs) # Len(vals) THEN Raise(h, "AssertionError")
    ELSE set_pairs(h, addrs, vals)

\* ExcelCompiler.set_value, the branch for a list-like value
set_value_list(h, address, value) ==
    set_flat(h, array_addresses(address), flatten(value.m))

---------------------------------------------------------------------------
(* recalculate                                                             *)

InMapAddrs(h) == {a \in AllAddrs : InMap(h, a)}

\* for cell in self.cell_map.values(): if range or cell.formula: value = None
RECURSIVE clear_formulas(_, _)
clear_formulas(h, i) ==
    IF i > Len(AddrOrder) THEN h
    ELSE LET a == AddrOrder[i]
             clear == InMap(h, a) /\ (Node(h, Key(h, a)).kind = "range"
                                      \/ Node(h, Key(h, a)).formula # NoFormula)
         IN  clear_formulas(IF clear THEN SetVal(h, Key(h, a), NoneV) ELSE h,
                            i + 1)

\* for cell in self.cell_map.values(): evaluate it.  The loop runs over the
\* entries the dict had when it started; an entry added by an evaluation makes
\* the dict iterator raise at its next step.
RECURSIVE evaluate_all(_, _, _)
evaluate_all(h, todo, size) ==
    IF h.err # "" THEN h
    ELSE IF Cardinality(InMapAddrs(h)) # size THEN Raise(h, "RuntimeError")
    ELSE IF todo = <<>> THEN h
    ELSE LET a == Head(todo)
             h1 == IF Node(h, Key(h, a)).kind = "range"
                   THEN _evaluate_range(h, a).h
                   ELSE _evaluate(h, a).h
         IN  evaluate_all(h1, Tail(todo), size)

\* the second loop of recalculate, over the entries of cell_map
evaluate_map(h) ==
    evaluate_all(h, SelectSeq(AddrOrder, LAMBDA a : InMap(h, a)),
                 Cardinality(InMapAddrs(h)))

\* ExcelCompiler.recalculate
recalculate(h) == evaluate_map(clear_formulas(h, 1))

---------------------------------------------------------------------------
(* trim_graph                                                              *)

\* _gen_graph for an iterable of seeds: build every seed, then drain once
RECURSIVE gen_seeds(_, _)
gen_seeds(h, seeds) ==
    IF seeds = <<>> THEN h
    ELSE gen_seeds(_gen_graph(h, Head(seeds), TRUE), Tail(seeds))

_gen_graph_seeds(h, seeds) == process_seed(gen_seeds(h, seeds), FALSE)

SeqToSet(s) == {s[i] : i \in 1..Len(s)}

\* walk_dependents in trim_graph: the needed set after walking from a node
RECURSIVE walk_dependents(_, _, _), walk_children(_, _, _)
walk_dependents(h, needed, key) == walk_children(h, needed, successors(h, key))

walk_children(h, needed, kids) ==
    IF kids = <<>> THEN needed
    ELSE LET child_addr == Head(kids)[1]
             n1 == IF child_addr \notin needed
                   THEN walk_dependents(h, needed \cup {child_addr}, Head(kids))
                   ELSE needed
         IN  walk_children(h, n1, Tail(kids))

\* the try block with the test of the except clause inverted: the exception
\* is raised again only for an input that is an output
RECURSIVE walk_inputs_output_fatal(_, _, _, _)
walk_inputs_output_fatal(h, needed, input_addrs, output_addrs) ==
    IF input_addrs = <<>> THEN [err |-> "", needed |-> needed]
    ELSE LET addr == Head(input_addrs)
         IN  IF ~InMap(h, addr)
             THEN walk_inputs_output_fatal(h, needed, Tail(input_addrs),
                                           output_addrs)
             ELSE IF Key(h, addr) \notin h.gnodes
             THEN [err |-> IF addr \in SeqToSet(output_addrs)
                           THEN "ValueError" ELSE "",
                   needed |-> needed]
             ELSE walk_inputs_output_fatal(
                      h, walk_dependents(h, needed, Key(h, addr)),
                      Tail(input_addrs), output_addrs)

\* the try block of trim_graph: walks from the inputs in order; successors()
\* of a node that is not in dep_graph raises NetworkXError, which ends the
\* loop, and is re-raised as ValueError unless that input is an output
RECURSIVE walk_inputs(_, _, _, _)
walk_inputs(h, needed, input_addrs, output_addrs) ==
    IF input_addrs = <<>> THEN [err |-> "", needed |-> needed]
    ELSE LET addr == Head(input_addrs)
         IN  IF ~InMap(h, addr)
             THEN walk_inputs(h, needed, Tail(input_addrs), output_addrs)
             ELSE IF Key(h, addr) \notin h.gnodes
             THEN [err |-> IF addr \notin SeqToSet(output_addrs)
                           THEN "ValueError" ELSE "",
                   needed |-> needed]
             ELSE walk_inputs(h, walk_dependents(h, needed, Key(h, addr)),
                              Tail(input_addrs), output_addrs)

\* walk_precedents in trim_graph; s = [h, needed, processed]
RECURSIVE walk_precedents(_, _), walk_precedent_list(_, _)
walk_precedents(s, key) ==
    walk_precedent_list(s, needed_addresses(key, Node(s.h, key)))

walk_precedent_list(s, addrs) ==
    IF s.h.err # "" \/ addrs = <<>> THEN s
    ELSE
    LET child_address == Head(addrs)
        s1 == IF child_address \in s.processed THEN s
              ELSE LET s0 == [s EXCEPT !.processed = @ \cup {child_address}]
                   IN  IF ~InMap(s0.h, child_address)
                       THEN [s0 EXCEPT !.h = Raise(@, "KeyError")]
                       ELSE IF child_address \in s0.needed
                               \/ is_range(child_address)
                       THEN walk_precedents(s0, Key(s0.h, child_address))
                       ELSE [s0 EXCEPT
                               !.needed = @ \cup {child_address},
                               !.h = SetFormula(@, Key(s0.h, child_address),
                                                NoFormula)]
    IN  walk_precedent_list(s1, Tail(addrs))

RECURSIVE walk_outputs(_, _)
walk_outputs(s, output_addrs) ==
    IF s.h.err # "" \/ output_addrs = <<>> THEN s
    ELSE IF ~InMap(s.h, Head(output_addrs))
    THEN [s EXCEPT !.h = Raise(@, "KeyError")]
    ELSE walk_outputs(walk_precedents(s, Key(s.h, Head(output_addrs))),
                      Tail(output_addrs))

\* step 5 of trim_graph left out: no cell is removed
keep_all_cells(s) == s.h

\* step 5 of trim_graph: remove the cells that are not needed
remove_unneeded(s) ==
    IF s.h.err # "" THEN s.h
    ELSE [s.h EXCEPT !.cell_map =
             [a \in AllAddrs |-> IF a \in s.needed THEN @[a] ELSE 0]]

\* steps 2b to 5 of trim_graph, w being the outcome of the walk from the
\* inputs
trim_needed(h, w, output_addrs) ==
    IF w.err # "" THEN Raise(h, w.err)
    ELSE remove_unneeded(
             walk_outputs([h |-> h,
                           needed |-> w.needed \cup SeqToSet(output_addrs),
                           processed |-> {}],
                          output_addrs))

\* steps 2 to 5 of trim_graph, on the graph built for the outputs
trim_built(h, input_addrs, output_addrs) ==
    IF h.err # "" THEN h
    ELSE trim_needed(h, walk_inputs(h, {}, input_addrs, output_addrs),
                     output_addrs)

\* ExcelCompiler.trim_graph
trim_graph(h, input_addrs, output_addrs) ==
    trim_built(_gen_graph_seeds(h, output_addrs), input_addrs, output_addrs)

---------------------------------------------------------------------------
(* validate_calcs, for a list of output addresses.  Its state s: the heap,  *)
(* the work list to_verify, the set verified, the report (mismatch: the     *)
(* <<address, original, calced>> entries; exceptions: the <<address,        *)
(* exception>> entries) and, for the properties, the addresses popped.      *)

\* close_enough in validate_calcs
close_enough(val1, val2) == val1 = val2

\* the except clause left out: the exception ends the call
propagate_exception(s, addr, h) == [s EXCEPT !.h = h]

\* except Exception as exc: the failure goes into the report
record_exception(s, addr, h) ==
    [s EXCEPT !.h = [h EXCEPT !.err = ""],
              !.exceptions = @ \cup {<<addr, h.err>>}]

\* verified.add(addr); for addr in cell.needed_addresses:
\*     if addr not in verified: to_verify.append(addr)
verified_cell(s, addr, h) ==
    [s EXCEPT !.h = h,
              !.verified = @ \cup {addr},
              !.to_verify = @ \o SelectSeq(
                  needed_addresses(Key(h, addr), Node(h, Key(h, addr))),
                  LAMBDA p : p \notin s.verified \cup {addr})]

\* the second evaluation after a mismatch has run
after_mismatch(s, addr, r) ==
    IF r.h.err # "" THEN record_exception(s, addr, r.h)
    ELSE verified_cell(s, addr, r.h)

\* failed.setdefault('mismatch', {})[str(addr)] = Mismatch(...)
record_mismatch(s, addr, original, calced) ==
    [s EXCEPT !.mismatch = @ \cup {<<addr, original, calced>>}]

\* cell.value = None; self._evaluate(addr.address) has run, giving r
after_evaluate(s, addr, original, r) ==
    IF r.h.err # "" THEN record_exception(s, addr, r.h)
    ELSE IF close_enough(original, Node(r.h, Key(r.h, addr)).value)
    THEN verified_cell(s, addr, r.h)
    ELSE after_mismatch(
             record_mismatch(s, addr, original,
                             Node(r.h, Key(r.h, addr)).value),
             addr,
             _evaluate(SetVal(r.h, Key(r.h, addr), NoneV), addr))

\* self._gen_graph(addr) has run, giving h
after_gen_graph(s, addr, h) ==
    IF h.err # "" THEN record_exception(s, addr, h)
    ELSE IF Node(h, Key(h, addr)).kind = "cell"
            /\ Node(h, Key(h, addr)).formula # NoFormula
    THEN after_evaluate(s, addr, Node(h, Key(h, addr)).value,
                        _evaluate(SetVal(h, Key(h, addr), NoneV), addr))
    ELSE verified_cell(s, addr, h)

\* addr = to_verify.pop() and the body of the loop
verify_address(s, addr) ==
    after_gen_graph([s EXCEPT !.to_verify = SubSeq(@, 1, Len(@) - 1),
                              !.popped = @ \cup {addr}],
                    addr, _gen_graph(s.h, addr, FALSE))

\* while to_verify: ...
RECURSIVE verify_all(_)
verify_all(s) ==
    IF s.h.err # "" \/ s.to_verify = <<>> THEN s
    ELSE verify_all(verify_address(s, s.to_verify[Len(s.to_verify)]))

\* ExcelCompiler.validate_calcs(output_addrs)
validate_calcs(h, output_addrs) ==
    verify_all([h |-> h, to_verify |-> output_addrs, verified |-> {},
                mismatch |-> {}, exceptions |-> {}, popped |-> {}])

\* what validate_calcs returns: the report (with the addresses it popped)
Report(s) ==
    [h |-> s.h,
     v |-> [t |-> "report", mismatch |-> s.mismatch,
            exceptions |-> s.exceptions, verified |-> s.verified,
            popped |-> s.popped]]

---------------------------------------------------------------------------
(* Saving and loading: _to_text, _from_text, __getstate__, __setstate__,   *)
(* to_file, from_file                                                      *)

\* AddressRange.sort_key without the sheet: column and row of the (first)
\* cell, row 0 for a whole column
sort_key(a) ==
    CASE a = "A1" -> <<1, 1>> [] a = "A2" -> <<1, 2>>
      [] a = "B1" -> <<2, 1>> [] a = "B2" -> <<2, 2>>
      [] a = "C1" -> <<3, 1>> [] a = "D1" -> <<4, 1>>
      [] a = "A1:B2" -> <<1, 1>> [] a = "A:B" -> <<1, 0>>
      [] a = "E1" -> <<5, 1>> [] a = "F1" -> <<6, 1>>
      [] a = "G1" -> <<7, 1>>

\* tuple comparison of two sort keys
key_less(k1, k2) == k1[1] < k2[1] \/ (k1[1] = k2[1] /\ k1[2] < k2[2])

\* sorted(..., key=sort_key): a stable sort of <<address, entry>> pairs
RECURSIVE insert_sorted(_, _), sorted(_)
insert_sorted(x, seq) ==
    IF seq = <<>> THEN <<x>>
    ELSE IF key_less(sort_key(x[1]), sort_key(Head(seq)[1]))
    THEN <<x>> \o seq
    ELSE <<Head(seq)>> \o insert_sorted(x, Tail(seq))

sorted(seq) ==
    IF seq = <<>> THEN <<>>
    ELSE insert_sorted(seq[Len(seq)], sorted(SubSeq(seq, 1, Len(seq) - 1)))

\* cell_value in _to_text
cell_value(a_cell) ==
    IF a_cell.formula # NoFormula THEN Code(a_cell.formula) ELSE a_cell.value

\* ((addr, cell_value(cell)) for addr, cell in self.cell_map.items()
\*  if cell.serialize)
RECURSIVE serialized(_, _)
serialized(h, i) ==
    IF i > Len(AddrOrder) THEN <<>>
    ELSE (IF InMap(h, AddrOrder[i])
             /\ Node(h, Key(h, AddrOrder[i])).kind = "cell"
          THEN << <<AddrOrder[i], cell_value(Node(h, Key(h, AddrOrder[i])))>> >>
          ELSE <<>>)
         \o serialized(h, i + 1)

\* _to_text without the sort
unsorted_text(h) == serialized(h, 1)

\* ExcelCompiler._to_text: the cell_map of the text record
_to_text(h) == sorted(serialized(h, 1))

\* cls(excel=_CompiledImporter(filename, data))
NewCompiler(h, data) ==
    [objs |-> [a \in AllAddrs |-> <<>>], cell_map |-> [a \in AllAddrs |-> 0],
     gnodes |-> {}, gedges |-> {}, graph_todos |-> <<>>, range_todos |-> <<>>,
     cached |-> h.cached, excel |-> "importer", unpickled |-> FALSE,
     data |-> data, ran |-> <<>>, resets |-> <<>>, fetched |-> <<>>,
     frames |-> h.frames, deep |-> h.deep, err |-> ""]

\* the two loops of _from_text: _make_cells for each address of entries
RECURSIVE make_all(_, _)
make_all(h, entries) ==
    IF h.err # "" \/ entries = <<>> THEN h
    ELSE make_all(_make_cells(h, Head(entries)[1]), Tail(entries))

\* excel_compiler.excel = None, at the end of _from_text
drop_excel(h) ==
    IF h.err # "" THEN h ELSE [h EXCEPT !.excel = "None", !.data = <<>>]

\* the drain of the queues at the end of _from_text
finish_load(h) ==
    IF h.err # "" THEN h ELSE drop_excel(_process_gen_graph(h))

\* _from_text once the compiler exists: the cells, then the ranges
load_entries(h, data) ==
    finish_load(
        make_all(make_all(h, SelectSeq(data, LAMBDA e : ~is_range(e[1]))),
                 SelectSeq(data, LAMBDA e : is_range(e[1]))))

\* ExcelCompiler._from_text; the exception it raises is in err of the result
_from_text(h, data) == load_entries(NewCompiler(h, data), data)

\* the files as written
TextFile(cell_map_entries) == [t |-> "yml", cell_map |-> cell_map_entries]
PickleFile(state) == [t |-> "pkl", state |-> state]

\* ExcelCompiler.__getstate__: eval, excel, log and the queues become None
__getstate__(h) ==
    [objs |-> h.objs, cell_map |-> h.cell_map, gnodes |-> h.gnodes,
     gedges |-> h.gedges]

\* ExcelCompiler.__setstate__ on a pickled state: the instance has the
\* state's fields and a logger; its queues are None
__setstate__(h, state) ==
    [h EXCEPT !.objs = state.objs, !.cell_map = state.cell_map,
              !.gnodes = state.gnodes, !.gedges = state.gedges,
              !.graph_todos = <<>>, !.range_todos = <<>>,
              !.excel = "None", !.unpickled = TRUE]

\* to_file after the text is written: pickle.dump(self._from_text(text_name))
\* when the text changed or there is no pickle file
pickle_of(loaded, old_pkl) ==
    IF loaded.err # "" THEN old_pkl ELSE PickleFile(__getstate__(loaded))

\* from_file: the instance the caller holds afterwards is the loaded one, or
\* after an exception still the old one
loaded_or_old(h, loaded) ==
    IF loaded.err # "" THEN Raise(h, loaded.err) ELSE loaded

---------------------------------------------------------------------------
(* The state machine: one action per public operation, each the whole     *)
(* call.                                                                   *)

VARIABLES objs, cell_map, gnodes, gedges, graph_todos, range_todos, cached,
          last, trims, scenario, excel, unpickled, yml, pkl

vars == <<objs, cell_map, gnodes, gedges, graph_todos, range_todos, cached,
          last, trims, scenario, excel, unpickled, yml, pkl>>

\* the files on disk: the text record (yml) and the binary snapshot (pkl)
filevars == <<yml, pkl>>

heapvars == <<objs, cell_map, gnodes, gedges, graph_todos, range_todos>>

\* The object state at the start of a call.
Heap ==
    [objs |-> objs, cell_map |-> cell_map, gnodes |-> gnodes,
     gedges |-> gedges, graph_todos |-> graph_todos,
     range_todos |-> range_todos, cached |-> cached,
     excel |-> excel, unpickled |-> unpickled, data |-> <<>>,
     ran |-> <<>>, resets |-> <<>>, fetched |-> <<>>, frames |-> 0,
     deep |-> 0, err |-> ""]

\* The object state after the step.
HeapNext ==
    [objs |-> objs', cell_map |-> cell_map', gnodes |-> gnodes',
     gedges |-> gedges', graph_todos |-> graph_todos',
     range_todos |-> range_todos', cached |-> cached',
     excel |-> excel', unpickled |-> unpickled', data |-> <<>>,
     ran |-> <<>>, resets |-> <<>>, fetched |-> <<>>, frames |-> 0,
     deep |-> 0, err |-> ""]

\* The outcome of a call that returns nothing.
Returned(h) == [h |-> h, v |-> NoneV]

\* A finished call: the objects it leaves and its record: what was called,
\* with what, what it returned and the exception it raised ("": none).
Call(op, addrs, outs, val, r) ==
    [h |-> r.h,
     call |-> [op |-> op, addrs |-> addrs, outs |-> outs, val |-> val,
               ret |-> r.v, err |-> r.h.err]]

\* Progress through the scenario "compile the sheet, evaluate(C1),
\* set_value(A1, 5), evaluate(C1)": the calls so far are exactly a prefix
\* of it, or not ("off").
ScenarioNext(call) ==
    CASE scenario = "compiled" /\ call.op = "evaluate" /\ call.addrs = <<"C1">>
            -> "evaluated"
      [] scenario = "evaluated" /\ call.op = "set_value"
         /\ call.addrs = <<"A1">> /\ call.val = IntV(5)
            -> "written"
      [] scenario = "written" /\ call.op = "evaluate" /\ call.addrs = <<"C1">>
            -> "reevaluated"
      [] OTHER -> "off"

\* The state a call leaves (an exception leaves what the call had done).
Commit(c) ==
    /\ objs' = c.h.objs
    /\ cell_map' = c.h.cell_map
    /\ gnodes' = c.h.gnodes
    /\ gedges' = c.h.gedges
    /\ graph_todos' = c.h.graph_todos
    /\ range_todos' = c.h.range_todos
    /\ last' = c.call
    /\ scenario' = ScenarioNext(c.call)
    /\ excel' = c.h.excel
    /\ unpickled' = c.h.unpickled
    /\ UNCHANGED cached

\* no file of that name
NoFile == [t |-> "nofile"]

\* ExcelCompiler.__init__ on a workbook
Init ==
    /\ objs = [a \in AllAddrs |-> <<>>]
    /\ cell_map = [a \in AllAddrs |-> 0]
    /\ gnodes = {}
    /\ gedges = {}
    /\ graph_todos = <<>>
    /\ range_todos = <<>>
    /\ cached \in BOOLEAN
    /\ excel = "workbook"
    /\ unpickled = FALSE
    /\ yml = NoFile
    /\ pkl = NoFile
    /\ trims = 0
    /\ scenario = "compiled"
    /\ last = [op |-> "init", addrs |-> <<>>, outs |-> <<>>, val |-> NoneV,
               ret |-> NoneV, err |-> ""]

Evaluate(a) ==
    /\ Commit(Call("evaluate", <<a>>, <<>>, NoneV, evaluate(Heap, a)))
    /\ UNCHANGED <<trims, filevars>>

GenGraph(a) ==
    /\ Commit(Call("gen_graph", <<a>>, <<>>, NoneV,
                   Returned(_gen_graph(Heap, a, FALSE))))
    /\ UNCHANGED <<trims, filevars>>

SetValue(a, v) ==
    /\ Commit(Call("set_value", <<a>>, <<>>, v,
                   Returned(set_value(Heap, a, v))))
    /\ UNCHANGED <<trims, filevars>>

Recalculate ==
    /\ Commit(Call("recalculate", <<>>, <<>>, NoneV,
                   Returned(recalculate(Heap))))
    /\ UNCHANGED <<trims, filevars>>

TrimGraph(ins, outs) ==
    /\ trims < MaxTrims
    /\ Commit(Call("trim_graph", ins, outs, NoneV,
                   Returned(trim_graph(Heap, ins, outs))))
    /\ trims' = trims + 1
    /\ UNCHANGED filevars

\* The arguments the calls are tried with.
SetCalls == {<<"A1", IntV(2)>>, <<"A1", IntV(5)>>, <<"A2", IntV(5)>>,
             <<"B2", IntV(5)>>}

\* evaluate of any address, set_value of formula-less cells, recalculate
Next ==
    \/ \E a \in Addrs : Evaluate(a)
    \/ \E c \in SetCalls : SetValue(c[1], c[2])
    \/ Recalculate

Spec == Init /\ [][Next]_vars

\* Building, evaluating, writing and trimming, with the arguments that
\* reach trim_graph's cases: an input with and without dependents, an
\* output fed by a range, an input that is also an output.
TrimEvalAddrs == {"C1", "D1", "A2"}
TrimSeedAddrs == {"C1"}
TrimSetAddrs == {"A1", "B2"}
TrimSetVals == {IntV(5)}
TrimCalls ==
    { << <<"A1">>, <<"C1">> >>,
      << <<"B2">>, <<"D1">> >>,
      << <<"A2", "A1">>, <<"C1", "A2">> >>,
      << <<>>, <<"D1">> >> }

NextTrim ==
    \/ \E a \in TrimEvalAddrs : Evaluate(a)
    \/ \E a \in TrimSeedAddrs : GenGraph(a)
    \/ \E a \in TrimSetAddrs, v \in TrimSetVals : SetValue(a, v)
    \/ \E c \in TrimCalls : TrimGraph(c[1], c[2])

SpecTrim == Init /\ [][NextTrim]_vars

\* _gen_graph called with an iterable of seeds
GenGraphSeeds(seeds) ==
    /\ Commit(Call("gen_graph_seeds", seeds, <<>>, NoneV,
                   Returned(_gen_graph_seeds(Heap, seeds))))
    /\ UNCHANGED <<trims, filevars>>

\* Building from every kind of seed (cell, bounded and unbounded range, one
\* seed or several), between evaluations and writes.
BuildSeedLists == { <<"C1", "D1">>, <<"A:B", "C1">> }
BuildEvalAddrs == {"C1", "D1"}
BuildSetCalls == {<<"A1", IntV(5)>>}

NextBuild ==
    \/ \E a \in Addrs : GenGraph(a)
    \/ \E seeds \in BuildSeedLists : GenGraphSeeds(seeds)
    \/ \E a \in BuildEvalAddrs : Evaluate(a)
    \/ \E c \in BuildSetCalls : SetValue(c[1], c[2])

SpecBuild == Init /\ [][NextBuild]_vars

\* set_value with a list-like value; the call is recorded with the list of
\* addresses, or with the one range address, it was given
SetValueArray(address, value) ==
    /\ Commit(Call("set_value",
                   IF address.t = "list" THEN address.l ELSE <<address.a>>,
                   <<>>, value,
                   Returned(set_value_list(Heap, address, value))))
    /\ UNCHANGED <<trims, filevars>>

\* Array writes whose counts match, on cells and on a range, and whose
\* counts differ, between evaluations and scalar writes.
ArrayEvalAddrs == {"C1", "D1"}
ArraySetCalls == {<<"A1", IntV(5)>>}
ArrayCalls ==
    { <<ListArg(<<"A1", "A2">>), MatV(<< <<IntV(5), IntV(6)>> >>)>>,
      <<ListArg(<<"A2", "A1">>), MatV(<< <<IntV(2)>>, <<IntV(5)>> >>)>>,
      <<ListArg(<<"A1", "A2">>), MatV(<< <<IntV(7)>> >>)>>,
      <<AddrArg("A1:B2"),
        MatV(<< <<IntV(5), IntV(15)>>, <<IntV(4), IntV(1)>> >>)>>,
      <<AddrArg("A1:B2"), MatV(<< <<IntV(7), IntV(7), IntV(7)>> >>)>> }

NextArray ==
    \/ \E a \in ArrayEvalAddrs : Evaluate(a)
    \/ \E c \in ArraySetCalls : SetValue(c[1], c[2])
    \/ \E c \in ArrayCalls : SetValueArray(c[1], c[2])

SpecArray == Init /\ [][NextArray]_vars

\* Trimming with inputs that have no node, that have a node outside the
\* graph, and that are outputs as well.
InputEvalAddrs == {"A2", "C1", "D1"}
InputSetCalls == {<<"A1", IntV(5)>>, <<"A2", IntV(5)>>}
InputTrimCalls ==
    { << <<"A2">>, <<"C1">> >>,
      << <<"A2", "A1">>, <<"C1">> >>,
      << <<"A2", "A1">>, <<"C1", "A2">> >>,
      << <<"B2", "A1">>, <<"C1">> >> }

NextInputs ==
    \/ \E a \in InputEvalAddrs : Evaluate(a)
    \/ \E c \in InputSetCalls : SetValue(c[1], c[2])
    \/ \E c \in InputTrimCalls : TrimGraph(c[1], c[2])

SpecInputs == Init /\ [][NextInputs]_vars

\* recalculate on graphs as built and as trimmed
RecalcEvalAddrs == {"C1", "D1"}
RecalcSetCalls == {<<"A1", IntV(5)>>}
RecalcTrimCalls == { << <<"A1">>, <<"C1">> >>, << <<>>, <<"D1">> >> }

NextRecalc ==
    \/ \E a \in RecalcEvalAddrs : Evaluate(a)
    \/ \E c \in RecalcSetCalls : SetValue(c[1], c[2])
    \/ \E c \in RecalcTrimCalls : TrimGraph(c[1], c[2])
    \/ Recalculate

SpecRecalc == Init /\ [][NextRecalc]_vars

\* evaluate of addresses with and without a node, on graphs as built and
\* as trimmed
DemandEvalAddrs == {"B1", "C1", "D1"}
DemandSetCalls == {<<"A1", IntV(5)>>}
DemandTrimCalls == { << <<"A1">>, <<"A2">> >>, << <<>>, <<"D1">> >> }

NextDemand ==
    \/ \E a \in DemandEvalAddrs : Evaluate(a)
    \/ \E c \in DemandSetCalls : SetValue(c[1], c[2])
    \/ \E c \in DemandTrimCalls : TrimGraph(c[1], c[2])

SpecDemand == Init /\ [][NextDemand]_vars

\* ExcelCompiler.to_file with the default file types: the text record, and
\* the pickle of the instance loaded back from it
ToFileDone(text, written, loaded) ==
    /\ yml' = TextFile(text)
    /\ pkl' = IF written THEN pickle_of(loaded, pkl) ELSE pkl
    /\ last' = [op |-> "to_file", addrs |-> <<>>, outs |-> <<>>,
                val |-> NoneV, ret |-> NoneV,
                err |-> IF written THEN loaded.err ELSE ""]
    /\ scenario' = "off"
    /\ UNCHANGED <<heapvars, cached, excel, unpickled, trims>>

ToFile ==
    ToFileDone(_to_text(Heap),
               yml # TextFile(_to_text(Heap)) \/ pkl = NoFile,
               _from_text(Heap, _to_text(Heap)))

\* ExcelCompiler.from_file on the file with the extension ext
FromFile(ext) ==
    /\ IF ext = "pkl" THEN pkl # NoFile ELSE yml # NoFile
    /\ Commit(Call("from_file", <<ext>>, <<>>, NoneV,
                   Returned(IF ext = "pkl"
                            THEN __setstate__(Heap, pkl.state)
                            ELSE loaded_or_old(Heap,
                                     _from_text(Heap, yml.cell_map)))))
    /\ UNCHANGED <<trims, filevars>>

\* Saving and loading between evaluations, writes and a trim
FileEvalAddrs == {"C1", "A:B"}
FileSetCalls == {<<"A1", IntV(5)>>}
FileTrimCalls == { << <<"A1">>, <<"A2">> >> }
Extensions == {"yml", "pkl"}

NextFile ==
    \/ \E a \in FileEvalAddrs : Evaluate(a)
    \/ \E c \in FileSetCalls : SetValue(c[1], c[2])
    \/ \E c \in FileTrimCalls : TrimGraph(c[1], c[2])
    \/ ToFile
    \/ \E ext \in Extensions : FromFile(ext)

SpecFile == Init /\ [][NextFile]_vars

ValidateCalcs(output_addrs) ==
    /\ Commit(Call("validate_calcs", output_addrs, <<>>, NoneV,
                   Report(validate_calcs(Heap, output_addrs))))
    /\ UNCHANGED <<trims, filevars>>

\* Validation of outputs on graphs as built, as written to and as trimmed
ValidateEvalAddrs == {"C1", "D1"}
ValidateSetCalls == {<<"A1", IntV(5)>>}
ValidateTrimCalls == { << <<"A1">>, <<"A2">> >> }
ValidateCalls == { <<"C1">>, <<"D1", "C1">> }

NextValidate ==
    \/ \E a \in ValidateEvalAddrs : Evaluate(a)
    \/ \E c \in ValidateSetCalls : SetValue(c[1], c[2])
    \/ \E c \in ValidateTrimCalls : TrimGraph(c[1], c[2])
    \/ \E outs \in ValidateCalls : ValidateCalcs(outs)

SpecValidate == Init /\ [][NextValidate]_vars

\* A formula that reads the unbounded range, between evaluations of other
\* outputs and writes to the members of the range it resolves to
IndirectEvalAddrs == {"E1", "C1", "D1"}
IndirectSetCalls == {<<"A1", IntV(5)>>, <<"A1", IntV(2)>>, <<"A2", IntV(5)>>}

NextIndirect ==
    \/ \E a \in IndirectEvalAddrs : Evaluate(a)
    \/ \E c \in IndirectSetCalls : SetValue(c[1], c[2])

SpecIndirect == Init /\ [][NextIndirect]_vars

\* Writes to set and to unset cells, with successors that hold a value and
\* successors that are unset
CascadeEvalAddrs == {"B1", "C1", "D1"}
CascadeSetCalls == {<<"A1", IntV(5)>>, <<"A1", IntV(2)>>, <<"B2", IntV(5)>>}

NextCascade ==
    \/ \E a \in CascadeEvalAddrs : Evaluate(a)
    \/ \E c \in CascadeSetCalls : SetValue(c[1], c[2])

SpecCascade == Init /\ [][NextCascade]_vars

\* Evaluation of the cell that holds a reference, on graphs as built and as
\* trimmed for it
RefEvalAddrs == {"A:B", "D1"}
RefSetCalls == {<<"A1", IntV(5)>>}
RefTrimCalls == { << <<>>, <<"A:B">> >>, << <<"A1">>, <<"D1">> >> }

NextRef ==
    \/ \E a \in RefEvalAddrs : Evaluate(a)
    \/ \E c \in RefSetCalls : SetValue(c[1], c[2])
    \/ \E c \in RefTrimCalls : TrimGraph(c[1], c[2])

SpecRef == Init /\ [][NextRef]_vars

\* Every kind of call on the acyclic cells and on the circular reference
\* F1 = G1+1, G1 = F1*3
CycleEvalAddrs == {"C1", "F1", "G1"}
CycleSeedAddrs == {"F1"}
CycleSetCalls == {<<"A1", IntV(5)>>, <<"F1", IntV(5)>>}
CycleTrimCalls == { << <<"A1">>, <<"C1">> >>, << <<"F1">>, <<"G1">> >> }

NextCycle ==
    \/ \E a \in CycleEvalAddrs : Evaluate(a)
    \/ \E a \in CycleSeedAddrs : GenGraph(a)
    \/ \E c \in CycleSetCalls : SetValue(c[1], c[2])
    \/ Recalculate
    \/ \E c \in CycleTrimCalls : TrimGraph(c[1], c[2])

SpecCycle == Init /\ [][NextCycle]_vars

---------------------------------------------------------------------------
(* Properties.                                                             *)

\* The persistent part of a heap (what a call leaves behind).
Store(h) == <<h.objs, h.cell_map, h.gnodes, h.gedges, h.graph_todos,
              h.range_todos>>

\* C1: on the sheet A1 = 2, B1 = A1*3, C1 = B1+1, evaluate(C1) returns 7, and
\* after set_value(A1, 5) evaluate(C1) returns 16.
C1_Scenario ==
    /\ scenario = "evaluated" => last.err = "" /\ last.ret = IntV(7)
    /\ scenario = "reevaluated" => last.err = "" /\ last.ret = IntV(16)

C1_Witness ==
    /\ scenario = "reevaluated"
    /\ last.ret = IntV(16)
    /\ Node(Heap, Key(Heap, "A1")).value = IntV(5)

\* C5: set_value(A, v) with v equal to A's cached value resets no node and
\* leaves every cached value, the map and the graph as they were.
C5_SameValueNoOp ==
    [][last'.op = "set_value" =>
        LET a == last'.addrs[1]
        IN  (InMap(Heap, a) /\ Node(Heap, Key(Heap, a)).value = last'.val)
            => /\ last'.err = ""
               /\ set_value(Heap, a, last'.val).resets = <<>>
               /\ UNCHANGED heapvars]_vars

\* the last call wrote A1's cached value again while a dependant of A1 holds
\* a value (a write of another value leaves no direct dependant set)
C5_Witness ==
    /\ last.op = "set_value" /\ last.addrs = <<"A1">> /\ last.err = ""
    /\ Node(Heap, Key(Heap, "A1")).value = last.val
    /\ \E k \in gnodes : /\ <<Key(Heap, "A1"), k>> \in gedges
                         /\ Node(Heap, k).value # NoneV

\* C10: _gen_graph for a seed whose address has a node returns without
\* fetching and changes neither the map, the graph, a cached value nor a work
\* queue; so building a seed a second time changes nothing.
C10_GenGraphNoOp ==
    [][last'.op = "gen_graph" =>
        LET a == last'.addrs[1]
            again == _gen_graph(HeapNext, a, FALSE)
        IN  /\ InMap(Heap, a) =>
                  /\ last'.err = ""
                  /\ _gen_graph(Heap, a, FALSE).fetched = <<>>
                  /\ UNCHANGED heapvars
            /\ last'.err = "" =>
                  /\ again.err = "" /\ again.fetched = <<>>
                  /\ Store(again) = Store(HeapNext)]_vars

\* _gen_graph(C1) was called while C1 held a value that no build gives it
C10_Witness ==
    /\ last.op = "gen_graph" /\ last.addrs = <<"C1">> /\ last.err = ""
    /\ InMap(Heap, "C1")
    /\ Node(Heap, Key(Heap, "C1")).value = IntV(16)

\* The value and the formula an address starts a call with: those of its
\* node, or for an address without a node those a build gives it.
StartValue(h, a) ==
    IF InMap(h, a) THEN Node(h, Key(h, a)).value
    ELSE IF is_range(a) THEN NoneV
    ELSE SheetValue(a, h.cached)

StartFormula(h, a) ==
    IF InMap(h, a) THEN Node(h, Key(h, a)).formula
    ELSE IF a \in UnboundedRanges THEN REF_FORMAT(ResolvedAddress(a))
    ELSE IF is_range(a) THEN NoFormula
    ELSE SheetFormula(a)

\* The addresses an evaluation of a has to read, a included: it goes through
\* a reference, stops at a set value, and otherwise reads the members of a
\* range or the operands of a formula.
RECURSIVE ReadBy(_, _)
ReadBy(h, a) ==
    LET v == StartValue(h, a)
        reads == IF v.t = "ref" THEN {v.a}
                 ELSE IF v # NoneV THEN {}
                 ELSE IF a \in BoundedRanges
                 THEN SeqToSet(flatten(resolve_range(a)))
                 ELSE SeqToSet(StartFormula(h, a).args)
    IN  {a} \cup UNION {ReadBy(h, b) : b \in reads}

Count(seq, x) == Cardinality({i \in 1..Len(seq) : seq[i] = x})

\* C4: two evaluations of the same address in a row invoke no formula more
\* than once in total and none of a cell that held a value; the formula of
\* every unset formula cell the evaluation has to read (the address itself
\* included) is invoked exactly once; the second call invokes nothing,
\* returns the value of the first and changes nothing.
C4_Memoization ==
    [][(last'.op = "evaluate" /\ last'.err = "") =>
        LET x == last'.addrs[1]
            first == evaluate(Heap, x)
            second == evaluate(HeapNext, x)
            total == first.h.ran \o second.h.ran
        IN  /\ \A a \in Addrs :
                  /\ Count(total, a) <= 1
                  /\ StartValue(Heap, a) # NoneV => Count(total, a) = 0
            /\ \A a \in ReadBy(Heap, x) :
                  (StartValue(Heap, a) = NoneV
                   /\ StartFormula(Heap, a) # NoFormula) => Count(total, a) = 1
            /\ second.h.err = ""
            /\ second.h.ran = <<>>
            /\ second.v = first.v
            /\ Store(second.h) = Store(HeapNext)]_vars

\* evaluate(C1) has just run the formulas of C1 and of its unset precedent B1
\* on a written A1
C4_Witness ==
    /\ last.op = "evaluate" /\ last.addrs = <<"C1">> /\ last.err = ""
    /\ last.ret = IntV(16)
    /\ scenario = "reevaluated"

RECURSIVE Descendants(_, _, _)
Descendants(edges, frontier, seen) ==
    LET next == {e[2] : e \in {e \in edges : e[1] \in frontier}} \ seen
    IN  IF next = {} THEN seen
        ELSE Descendants(edges, next, seen \cup next)

\* C2: set_value(A, v) with v different from A's cached value leaves A
\* holding v and every transitive graph successor of A unset; an evaluate of
\* such a successor then runs the formula of every formula cell on the path
\* from A to it.
C2_InvalidationCascade ==
    [][(/\ last'.op = "set_value" /\ last'.err = ""
        /\ InMap(Heap, last'.addrs[1])
        /\ Node(Heap, Key(Heap, last'.addrs[1])).value # last'.val) =>
        LET A == Key(Heap, last'.addrs[1])
            down == Descendants(gedges, {A}, {})
        IN  /\ Node(HeapNext, A).value = last'.val
            /\ \A k \in down : Node(HeapNext, k).value = NoneV
            /\ \A k \in down :
                  LET ran == evaluate(HeapNext, k[1]).h.ran
                  IN  \A p \in down :
                        (/\ p = k \/ k \in Descendants(gedges, {p}, {})
                         /\ Node(HeapNext, p).formula # NoFormula)
                        => Count(ran, p[1]) >= 1]_vars

\* The value of an address computed from the current values of the
\* formula-less cells alone, with no cached value of a formula or a range
\* (the formula of a cell being the one its node has now).
RECURSIVE Scratch(_, _)
Scratch(h, a) ==
    IF is_range(a)
    THEN LET rows == resolve_range(ResolvedAddress(a))
         IN  MatV([i \in 1..Len(rows) |-> [j \in 1..Len(rows[i]) |->
                      Scratch(h, rows[i][j])]])
    ELSE LET f == StartFormula(h, a)
         IN  CASE f.op = "" -> StartValue(h, a)
               [] f.op = "mul" -> IntV(Num(Scratch(h, f.args[1])) * f.k)
               [] f.op = "add" -> IntV(Num(Scratch(h, f.args[1])) + f.k)
               [] f.op = "sum" ->
                     IntV(SumSeq(flatten(Scratch(h, f.args[1]).m)))

\* C3: evaluate(x) returns for every address x the value computed from
\* scratch over the current values of the formula-less cells, and no formula
\* cell or range holds a set value other than that.
C3_CacheCoherence ==
    /\ \A x \in Addrs :
          LET r == evaluate(Heap, x)
          IN  r.h.err = "" => r.v = Scratch(Heap, x)
    /\ \A a \in Addrs :
          (/\ InMap(Heap, a)
           /\ \/ Node(Heap, Key(Heap, a)).kind = "range"
              \/ Node(Heap, Key(Heap, a)).formula # NoFormula
           /\ Node(Heap, Key(Heap, a)).value # NoneV
           /\ Node(Heap, Key(Heap, a)).value.t # "ref")
          => Node(Heap, Key(Heap, a)).value = Scratch(Heap, a)

\* The addresses of the nodes that depend, through the graph, on a node of
\* one of the addresses ins.
Dependents(h, ins) ==
    {k[1] : k \in Descendants(h.gedges,
                              {Key(h, i) : i \in {i \in ins : InMap(h, i)}},
                              {})}

\* The addresses read, directly or through other nodes, by the nodes of the
\* addresses of frontier.
RECURSIVE Precedents(_, _, _)
Precedents(h, frontier, seen) ==
    LET next == UNION {SeqToSet(needed_addresses(Key(h, a), Node(h, Key(h, a)))) :
                          a \in {a \in frontier : InMap(h, a)}} \ seen
    IN  IF next = {} THEN seen ELSE Precedents(h, next, seen \cup next)

\* The cells without a formula that the outputs read, directly or not.
Leaves(built, after, outs) ==
    {a \in Precedents(built, outs, {}) :
        /\ ~is_range(a)
        /\ InMap(after, a)
        /\ Node(after, Key(after, a)).formula = NoFormula}

\* C6: for every output o, evaluate(o) right after trim_graph equals
\* evaluate(o) right before it, and after a set_value on an input it equals
\* evaluate(o) on the untrimmed graph given the same set_value.
C6_TrimPreservesOutputs ==
    [][(last'.op = "trim_graph" /\ last'.err = "") =>
        \A o \in SeqToSet(last'.outs) :
            /\ evaluate(HeapNext, o).v = evaluate(Heap, o).v
            /\ \A i \in SeqToSet(last'.addrs), v \in {IntV(2), IntV(5)} :
                  LET untrimmed == evaluate(set_value(Heap, i, v), o)
                      trimmed == evaluate(set_value(HeapNext, i, v), o)
                  IN  untrimmed.h.err = ""
                      => trimmed.h.err = "" /\ trimmed.v = untrimmed.v]_vars

\* C7 as stated: after trim_graph every remaining node is an output, or lies
\* on a path from an input to an output, or is a formula-less leaf read by
\* such a node; with only A1, B1, C1 built, trim_graph([A1], [C1]) leaves
\* exactly A1, B1 and C1.
C7_ExactlyNeeded ==
    [][(last'.op = "trim_graph" /\ last'.err = "") =>
        LET ins == SeqToSet(last'.addrs)
            outs == SeqToSet(last'.outs)
            built == _gen_graph_seeds(Heap, last'.outs)
            onPath == (ins \cup Dependents(built, ins))
                      \cap (outs \cup Precedents(built, outs, {}))
        IN  /\ \A a \in InMapAddrs(HeapNext) :
                  \/ a \in outs
                  \/ a \in onPath
                  \/ a \in Leaves(built, HeapNext, outs)
            /\ (/\ last'.addrs = <<"A1">> /\ last'.outs = <<"C1">>
                /\ InMapAddrs(built) \subseteq {"A1", "B1", "C1"})
               => InMapAddrs(HeapNext) = {"A1", "B1", "C1"}]_vars

\* C7 amended: after trim_graph every remaining node is an output, or depends
\* on an input (whether or not an output depends on it), or is a formula-less
\* leaf read by an output; every output remains; with only A1, B1, C1 built,
\* trim_graph([A1], [C1]) leaves exactly A1, B1 and C1.
C7_NeededOrDependent ==
    [][(last'.op = "trim_graph" /\ last'.err = "") =>
        LET ins == SeqToSet(last'.addrs)
            outs == SeqToSet(last'.outs)
            built == _gen_graph_seeds(Heap, last'.outs)
        IN  /\ \A a \in InMapAddrs(HeapNext) :
                  \/ a \in outs
                  \/ a \in Dependents(built, ins)
                  \/ a \in Leaves(built, HeapNext, outs)
            /\ outs \subseteq InMapAddrs(HeapNext)
            /\ (/\ last'.addrs = <<"A1">> /\ last'.outs = <<"C1">>
                /\ InMapAddrs(built) \subseteq {"A1", "B1", "C1"})
               => InMapAddrs(HeapNext) = {"A1", "B1", "C1"}]_vars

\* trim_graph([A1], [C1]) has removed A2 and kept D1, which depends on A1 and
\* on which C1 does not depend
C7_Witness ==
    /\ last.op = "trim_graph" /\ last.err = ""
    /\ last.addrs = <<"A1">> /\ last.outs = <<"C1">>
    /\ InMapAddrs(Heap) = {"A1", "B1", "C1", "A1:B2", "D1"}
    /\ Len(objs["A2"]) = 1

\* C8: a cell that depends on no input and whose formula trim_graph strips
\* stays in the map, without a formula and with a set value, the value
\* evaluate returned for it just before the trim.
C8_StrippedKeepValue ==
    [][(last'.op = "trim_graph" /\ last'.err = "") =>
        \A a \in CellAddrs :
            (/\ StartFormula(Heap, a) # NoFormula
             /\ a \notin Dependents(_gen_graph_seeds(Heap, last'.outs),
                                    SeqToSet(last'.addrs))
             /\ InMap(HeapNext, a)
             /\ Node(HeapNext, Key(HeapNext, a)).formula = NoFormula)
            => /\ Node(HeapNext, Key(HeapNext, a)).value # NoneV
               /\ Node(HeapNext, Key(HeapNext, a)).value
                     = evaluate(Heap, a).v]_vars

\* The work queues are empty, every node of the map that has a formula or is
\* a range has each address it needs in the map with the edge from that
\* address's node to it, and every edge joins two nodes of the map.
GraphComplete(h) ==
    /\ h.graph_todos = <<>>
    /\ h.range_todos = <<>>
    /\ \A a \in InMapAddrs(h) :
          LET key == Key(h, a)
              node == Node(h, key)
          IN  (node.kind = "range" \/ node.formula # NoFormula)
              => \A p \in SeqToSet(needed_addresses(key, node)) :
                    /\ InMap(h, p)
                    /\ <<Key(h, p), key>> \in h.gedges
    /\ \A e \in h.gedges :
          /\ InMap(h, e[1][1]) /\ Key(h, e[1][1]) = e[1]
          /\ InMap(h, e[2][1]) /\ Key(h, e[2][1]) = e[2]

\* C11: when a top-level _gen_graph call (one seed or several) returns,
\* graph_todos and range_todos are empty, every node of the map that has a
\* formula or is a range has each of its precedent addresses in the map and
\* the edge precedent -> node in the graph, and every edge of the graph joins
\* two nodes that are in the map.
C11_GraphComplete ==
    [][(last'.op \in {"gen_graph", "gen_graph_seeds"} /\ last'.err = "")
        => GraphComplete(HeapNext)]_vars

\* C14: set_value with a scalar value on an address that has no node in the
\* map fails with an error and creates no node: the map, every cached value,
\* the graph and the queues are after the failed call what they were before.
C14_UnknownAddressRejected ==
    [][(/\ last'.op = "set_value" /\ ~list_like(last'.val)
        /\ ~InMap(Heap, last'.addrs[1]))
        => /\ last'.err = "AssertionError"
           /\ UNCHANGED heapvars]_vars

\* set_value(B2, 5) has failed on a graph that holds C1 and its precedents
\* and no node for B2
C14_Witness ==
    /\ last.op = "set_value" /\ last.addrs = <<"B2">> /\ last.val = IntV(5)
    /\ last.err = "AssertionError"
    /\ InMapAddrs(Heap) = {"A1", "B1", "C1"}
    /\ Node(Heap, Key(Heap, "C1")).value = IntV(7)

\* The scalar calls set_value(addrs[1], vals[1]), set_value(addrs[2],
\* vals[2]), ... made one after the other; the first that raises ends them.
RECURSIVE ScalarCalls(_, _, _)
ScalarCalls(h, addrs, vals) ==
    IF addrs = <<>> THEN h
    ELSE LET h1 == set_value(h, Head(addrs), Head(vals))
         IN  IF h1.err # "" THEN h1
             ELSE ScalarCalls(h1, Tail(addrs), Tail(vals))

\* C15: set_value with an array-like value whose flattened element count
\* differs from the flattened address count fails before any pair is written
\* and leaves every cached value (and the rest of the state) unchanged; when
\* the counts match its effect, an exception included, is that of the scalar
\* calls set_value(address, value) over the pairs in flattening order.
C15_ArraySetValue ==
    [][(last'.op = "set_value" /\ list_like(last'.val)) =>
        LET addrs == IF is_range(last'.addrs[1])
                     THEN flatten(resolve_range(last'.addrs[1]))
                     ELSE last'.addrs
            vals == flatten(last'.val.m)
            calls == ScalarCalls(Heap, addrs, vals)
        IN  /\ Len(addrs) # Len(vals)
               => last'.err = "AssertionError" /\ UNCHANGED heapvars
            /\ Len(addrs) = Len(vals)
               => /\ last'.err = calls.err
                  /\ Store(HeapNext) = Store(calls)]_vars

\* set_value([A2, A1], [[2], [5]]) has written both cells and reset the
\* dependants of A1 while D1, which reads both, had been evaluated
C15_Witness ==
    /\ last.op = "set_value" /\ last.addrs = <<"A2", "A1">> /\ last.err = ""
    /\ last.val = MatV(<< <<IntV(2)>>, <<IntV(5)>> >>)
    /\ Node(Heap, Key(Heap, "A2")).value = IntV(2)
    /\ Node(Heap, Key(Heap, "A1")).value = IntV(5)
    /\ InMap(Heap, "D1") /\ Node(Heap, Key(Heap, "D1")).value = NoneV

\* The first of the inputs whose node is in the map and not in the graph
\* ("": there is none).
RECURSIVE FirstOutsideGraph(_, _)
FirstOutsideGraph(h, ins) ==
    IF ins = <<>> THEN ""
    ELSE IF InMap(h, Head(ins)) /\ Key(h, Head(ins)) \notin h.gnodes
    THEN Head(ins)
    ELSE FirstOutsideGraph(h, Tail(ins))

\* C16 as stated: for an input address that is absent from the graph (it has
\* no node in the map, or its node is not in the graph), trim_graph completes
\* without error when the address is not listed as an output and fails when
\* it is.
C16_AbsentInputFatalIfOutput ==
    [][last'.op = "trim_graph" =>
        LET built == _gen_graph_seeds(Heap, last'.outs)
        IN  built.err = "" =>
            \A i \in SeqToSet(last'.addrs) :
                (~InMap(built, i) \/ Key(built, i) \notin built.gnodes)
                => /\ i \notin SeqToSet(last'.outs) => last'.err = ""
                   /\ i \in SeqToSet(last'.outs) => last'.err # ""]_vars

\* C16 amended: an input address without a node in the map raises no error;
\* when the first input whose node is in the map but not in the graph is not
\* listed as an output trim_graph fails with ValueError and removes nothing;
\* when it is listed as an output, or there is no such input, trim_graph
\* raises no ValueError.
C16_AbsentInputFatalUnlessOutput ==
    [][last'.op = "trim_graph" =>
        LET built == _gen_graph_seeds(Heap, last'.outs)
            first == FirstOutsideGraph(built, last'.addrs)
        IN  built.err = "" =>
            /\ (first # "" /\ first \notin SeqToSet(last'.outs))
               => /\ last'.err = "ValueError"
                  /\ Store(HeapNext) = Store(built)
            /\ (first = "" \/ first \in SeqToSet(last'.outs))
               => last'.err # "ValueError"
            /\ (\A i \in SeqToSet(last'.addrs) : ~InMap(built, i))
               => last'.err = ""]_vars

\* trim_graph([A2], [C1]) has failed on A2, which has a node that nothing
\* built so far reads
C16_Witness ==
    /\ last.op = "trim_graph" /\ last.err = "ValueError"
    /\ last.addrs = <<"A2">> /\ last.outs = <<"C1">>
    /\ InMap(Heap, "A2") /\ Key(Heap, "A2") \notin gnodes
    /\ InMap(Heap, "C1")

\* C17: recalculate changes the cached value of no formula-less cell and
\* adds or removes no node; it returns, and then every formula cell and
\* every range of the map holds the value computed from scratch over the
\* current values of the formula-less cells (a reference-returning cell: its
\* reference).
C17_Recalculate ==
    [][last'.op = "recalculate" =>
        /\ cell_map' = cell_map
        /\ \A a \in InMapAddrs(Heap) :
              (/\ Node(Heap, Key(Heap, a)).kind = "cell"
               /\ Node(Heap, Key(Heap, a)).formula = NoFormula)
              => Node(HeapNext, Key(Heap, a)).value
                    = Node(Heap, Key(Heap, a)).value
        /\ last'.err = ""
        /\ \A a \in InMapAddrs(HeapNext) :
              LET node == Node(HeapNext, Key(HeapNext, a))
              IN  (node.kind = "range" \/ node.formula # NoFormula)
                  => /\ node.value # NoneV
                     /\ node.value.t # "ref"
                           => node.value = Scratch(HeapNext, a)]_vars

\* C20: evaluate of an address that has no node builds that node and all its
\* transitive precedents and returns its value (the value of the address a
\* reference-returning node refers to); evaluate of an address that has a
\* node fetches nothing from the data source and adds no node and no edge.
C20_EvaluateBuildsOnDemand ==
    [][last'.op = "evaluate" =>
        LET a == last'.addrs[1]
        IN  /\ ~InMap(Heap, a) =>
                  /\ last'.err = ""
                  /\ InMap(HeapNext, a)
                  /\ Precedents(HeapNext, {a}, {}) \subseteq InMapAddrs(HeapNext)
                  /\ LET v == Node(HeapNext, Key(HeapNext, a)).value
                     IN  last'.ret = IF v.t = "ref"
                                     THEN Node(HeapNext, Key(HeapNext, v.a)).value
                                     ELSE v
            /\ InMap(Heap, a) =>
                  /\ evaluate(Heap, a).h.fetched = <<>>
                  /\ cell_map' = cell_map
                  /\ \A b \in Addrs : Len(objs'[b]) = Len(objs[b])
                  /\ gnodes' = gnodes
                  /\ gedges' = gedges]_vars

\* C13: the cell_map of the text record has exactly one entry for every Cell
\* of the map and none for a CellRange, in increasing order of the sort keys
\* of the addresses; the entry of a Cell with a formula is "=" and the
\* formula code, the entry of any other Cell is its cached value.
C13_TextRecord ==
    [][last'.op = "to_file" =>
        LET t == yml'.cell_map
        IN  /\ {t[i][1] : i \in 1..Len(t)}
                  = {a \in InMapAddrs(Heap) :
                        Node(Heap, Key(Heap, a)).kind = "cell"}
            /\ \A i, j \in 1..Len(t) :
                  i < j => key_less(sort_key(t[i][1]), sort_key(t[j][1]))
            /\ \A i \in 1..Len(t) :
                  LET cell == Node(Heap, Key(Heap, t[i][1]))
                  IN  t[i][2] = IF cell.formula # NoFormula
                                THEN Code(cell.formula) ELSE cell.value]_vars

\* a record written while the map held a range, the cell that refers to it,
\* a written value and a formula cell with a cached value
C13_Witness ==
    /\ last.op = "to_file"
    /\ yml = TextFile(<< <<"A:B", Code(REF_FORMAT("A1:B2"))>>,
                         <<"A1", IntV(5)>>, <<"A2", IntV(4)>>,
                         <<"B1", Code(Mul("A1", 3))>>, <<"B2", NoneV>> >>)
    /\ InMap(Heap, "A1:B2")
    /\ Node(Heap, Key(Heap, "B1")).value = IntV(15)

\* C12: saving a compiler to text, loading the text and saving the loaded
\* instance gives the same text; the loaded instance has, for every address
\* of the text, a Cell with the same formula or the same literal value as
\* the saved instance, and for every formula of the text (a reference to
\* another address aside) the edge from each precedent to the cell.
C12_TextFixedPoint ==
    [][last'.op = "to_file" =>
        LET t == yml'.cell_map
            loaded == _from_text(Heap, t)
        IN  /\ loaded.err = ""
            /\ _to_text(loaded) = t
            /\ \A i \in 1..Len(t) :
                  LET a == t[i][1]
                      saved == Node(Heap, Key(Heap, a))
                  IN  /\ InMap(loaded, a)
                      /\ Node(loaded, Key(loaded, a)).kind = "cell"
                      /\ Node(loaded, Key(loaded, a)).formula = saved.formula
                      /\ saved.formula = NoFormula
                            => Node(loaded, Key(loaded, a)).value = saved.value
                      /\ saved.formula.op # "ref"
                            => \A p \in SeqToSet(saved.formula.args) :
                                  /\ InMap(loaded, p)
                                  /\ <<Key(loaded, p), Key(loaded, a)>>
                                        \in loaded.gedges]_vars

\* C18: an instance loaded from the binary snapshot has no data source, and
\* its graph_todos and range_todos are empty queues, so that on it a build
\* of seeds that are in the map (one seed or several) and a trim to an
\* output that is in the map complete without an exception.
C18_SnapshotQueues ==
    [][(last'.op = "from_file" /\ last'.addrs = <<"pkl">>) =>
        /\ last'.err = ""
        /\ excel' = "None"
        /\ ~unpickled' /\ graph_todos' = <<>> /\ range_todos' = <<>>
        /\ \A a \in InMapAddrs(HeapNext) :
              /\ _gen_graph(HeapNext, a, FALSE).err = ""
              /\ _gen_graph_seeds(HeapNext, <<a>>).err = ""
              /\ trim_graph(HeapNext, <<>>, <<a>>).err = ""]_vars

\* What C19 says of the exceptions, the work list and the verified cells:
\* validate_calcs raises nothing; every requested output is processed; every
\* processed address is verified or has its exception in the report; every
\* precedent of a verified cell is processed; a mismatch entry holds two
\* different values.
ValidateReports(report, outs, after) ==
    /\ report.t = "report"
    /\ SeqToSet(outs) \subseteq report.popped
    /\ \A a \in report.popped :
          a \in report.verified \/ \E e \in report.exceptions : e[1] = a
    /\ \A a \in report.verified :
          SeqToSet(needed_addresses(Key(after, a), Node(after, Key(after, a))))
              \subseteq report.popped
    /\ \A m \in report.mismatch : m[2] # m[3]

ShapeContract(r, a, cellOf) ==
    IF ~is_range(a)
    THEN /\ r.address = a
         /\ DOMAIN r.formulas = DOMAIN NoFormula
         /\ r.values.t \in {"none", "int"}
    ELSE LET rows == resolve_range(ResolvedAddress(a))
         IN  /\ r.address = ResolvedAddress(a)
             /\ Len(r.formulas) = Len(rows) /\ Len(r.values) = Len(rows)
             /\ \A i \in 1..Len(rows) :
                   /\ Len(r.formulas[i]) = Len(rows[i])
                   /\ Len(r.values[i]) = Len(rows[i])
                   /\ \A j \in 1..Len(rows[i]) :
                         /\ r.formulas[i][j] = cellOf[rows[i][j]].formulas
                         /\ r.values[i][j] = cellOf[rows[i][j]].values

C22_InvalidationThroughIndirection ==
    [][(/\ last'.op = "set_value" /\ last'.err = ""
        /\ InMap(Heap, last'.addrs[1])
        /\ Node(Heap, Key(Heap, last'.addrs[1])).value # last'.val) =>
        \A F \in AllAddrs, u \in UnboundedRanges :
            (/\ InMap(Heap, F) /\ InMap(Heap, u)
             /\ u \in SeqToSet(Node(Heap, Key(Heap, F)).formula.args)
             /\ Node(Heap, Key(Heap, u)).formula.op = "ref"
             /\ last'.addrs[1] \in
                   SeqToSet(flatten(resolve_range(ResolvedAddress(u))))
             /\ Node(Heap, Key(Heap, F)).value # NoneV)
            => /\ Node(HeapNext, Key(HeapNext, F)).value = NoneV
               /\ evaluate(HeapNext, F).v = Scratch(HeapNext, F)]_vars

\* C23: when _gen_graph has built a range seed, the map holds the CellRange
\* node of the resolved range and a Cell for every member that has a formula
\* or a value, the members that were present before being the objects they
\* were; a member without formula and value that had no node before the build
\* has none after it.
C23_SparseRange ==
    [][(/\ last'.op = "gen_graph" /\ last'.err = ""
        /\ is_range(last'.addrs[1]) /\ ~InMap(Heap, last'.addrs[1])) =>
        LET ra == ResolvedAddress(last'.addrs[1])
        IN  /\ InMap(HeapNext, ra)
            /\ Node(HeapNext, Key(HeapNext, ra)).kind = "range"
            /\ \A m \in SeqToSet(flatten(resolve_range(ra))) :
                  /\ InMap(Heap, m) => Key(HeapNext, m) = Key(Heap, m)
                  /\ (SheetFormula(m) # NoFormula
                      \/ SheetValue(m, cached) # NoneV)
                     => /\ InMap(HeapNext, m)
                        /\ Node(HeapNext, Key(HeapNext, m)).kind = "cell"
                  /\ (/\ SheetFormula(m) = NoFormula
                      /\ SheetValue(m, cached) = NoneV
                      /\ ~InMap(Heap, m))
                     => ~InMap(HeapNext, m)]_vars

\* Every node object of the heap.
AllKeys(h) == UNION {{<<a, g>> : g \in 1..Len(h.objs[a])} : a \in AllAddrs}

\* What a set_value of a new value on the node T does to the cached values,
\* R being the nodes it reset: the cascade goes from a reset node to each
\* successor that holds a value and to no successor that is unset; the nodes
\* reset end unset, T ends with the value written, nothing else changes.
CascadeThroughSetNodes(before, after, T, R, value) ==
    /\ \A k \in R \ {T} :
          /\ Node(before, k).value # NoneV
          /\ \E p \in R : <<p, k>> \in before.gedges
    /\ \A k \in R : \A e \in before.gedges :
          (e[1] = k /\ Node(before, e[2]).value # NoneV) => e[2] \in R
    /\ \A k \in AllKeys(before) :
          Node(after, k) =
              IF k = T THEN [Node(before, k) EXCEPT !.value = value]
              ELSE IF k \in R THEN [Node(before, k) EXCEPT !.value = NoneV]
              ELSE Node(before, k)

\* C24 as stated: the cascade of a set_value of a new value does not descend
\* into a successor that is unset, and when the target itself is unset no
\* node is reset: no successor's cached value is cleared and the call only
\* writes the target.
C24_UnsetTargetNoCascade ==
    [][(/\ last'.op = "set_value" /\ last'.err = ""
        /\ InMap(Heap, last'.addrs[1])
        /\ Node(Heap, Key(Heap, last'.addrs[1])).value # last'.val) =>
        LET T == Key(Heap, last'.addrs[1])
            R == SeqToSet(set_value(Heap, last'.addrs[1], last'.val).resets)
        IN  /\ CascadeThroughSetNodes(Heap, HeapNext, T, R, last'.val)
            /\ Node(Heap, T).value = NoneV =>
                  \A k \in AllKeys(Heap) \ {T} :
                      Node(HeapNext, k) = Node(Heap, k)]_vars

\* C24 amended: the cascade of a set_value of a new value does not descend
\* into a successor that is unset; a target that is unset is given the new
\* value first and is then reset like a set one, so the successors that hold
\* a value are cleared whether the target was set or unset.
C24_UnsetTargetCascades ==
    [][(/\ last'.op = "set_value" /\ last'.err = ""
        /\ InMap(Heap, last'.addrs[1])
        /\ Node(Heap, Key(Heap, last'.addrs[1])).value # last'.val) =>
        LET T == Key(Heap, last'.addrs[1])
            R == SeqToSet(set_value(Heap, last'.addrs[1], last'.val).resets)
        IN  /\ CascadeThroughSetNodes(Heap, HeapNext, T, R, last'.val)
            /\ T \in R
            /\ \A e \in gedges :
                  (e[1] = T /\ Node(Heap, e[2]).value # NoneV)
                  => Node(HeapNext, e[2]).value = NoneV]_vars

\* set_value(B2, 5) on the empty cell B2 has left the range A1:B2 and D1,
\* built from a workbook that stores D1's value, unset
C24_Witness ==
    /\ last.op = "set_value" /\ last.addrs = <<"B2">> /\ last.err = ""
    /\ last.val = IntV(5)
    /\ cached /\ InMap(Heap, "D1") /\ InMap(Heap, "A1:B2")
    /\ Node(Heap, Key(Heap, "B2")).value = IntV(5)
    /\ Node(Heap, Key(Heap, "A1")).value = IntV(2)
    /\ Node(Heap, Key(Heap, "A2")).value = IntV(4)
    /\ Node(Heap, Key(Heap, "A1:B2")).value = NoneV
    /\ Node(Heap, Key(Heap, "D1")).value = NoneV

\* C25: evaluate of a cell whose formula yields an address reference returns
\* what evaluating the referenced address gives, whether or not that address
\* has a node in the map, and the cell keeps the reference as its cached
\* value.
C25_Dereference ==
    [][(/\ last'.op = "evaluate"
        /\ StartFormula(Heap, last'.addrs[1]).op = "ref") =>
        LET referenced == StartFormula(Heap, last'.addrs[1]).args[1]
        IN  /\ last'.err = ""
            /\ Node(HeapNext, Key(HeapNext, last'.addrs[1])).value
                  = RefV(referenced)
            /\ last'.ret = evaluate(HeapNext, referenced).v]_vars

\* The node object key is the one the map holds for its address.
HeldByMap(h, key) == InMap(h, key[1]) /\ Key(h, key[1]) = key

\* C26: after trim_graph every node of the dependency graph is a node of the
\* map and every edge joins two nodes of the map: a node removed from the map
\* is in the graph no more.
C26_RemovedFromGraph ==
    [][(last'.op = "trim_graph" /\ last'.err = "") =>
        /\ \A k \in gnodes' : HeldByMap(HeapNext, k)
        /\ \A e \in gedges' :
              HeldByMap(HeapNext, e[1]) /\ HeldByMap(HeapNext, e[2])]_vars

\* C27: after trim_graph, whatever the order of the inputs and whether or not
\* one of them has no dependents in the graph, every node that the graph
\* built for the outputs reaches through successors from an input that has a
\* node is in the map with the formula it had, and every input with a node
\* that an output reads, directly or not, is in the map.
C27_WalksFromEveryInput ==
    [][(last'.op = "trim_graph" /\ last'.err = "") =>
        LET built == _gen_graph_seeds(Heap, last'.outs)
            ins == {i \in SeqToSet(last'.addrs) : InMap(built, i)}
        IN  /\ \A a \in Dependents(built, ins) :
                  /\ InMap(HeapNext, a)
                  /\ Node(HeapNext, Key(HeapNext, a)).formula
                        = Node(built, Key(built, a)).formula
            /\ \A i \in ins \cap Precedents(built, SeqToSet(last'.outs), {}) :
                  InMap(HeapNext, i)]_vars

\* The single-cell addresses the formula of the node key reads: its operands,
\* and the members of the ranges among them.
CellsRead(h, key) ==
    UNION {IF is_range(p)
           THEN SeqToSet(flatten(resolve_range(ResolvedAddress(p))))
           ELSE {p} : p \in SeqToSet(Node(h, key).formula.args)}

\* C28: after trim_graph every cell of the map that has a formula finds each
\* single-cell address it reads, directly or as a member of a range it reads,
\* in the map, and evaluating a cell of the map fails on no missing node.
C28_KeptCellsKeepPrecedents ==
    [][(last'.op = "trim_graph" /\ last'.err = "") =>
        \A a \in InMapAddrs(HeapNext) :
            /\ (/\ Node(HeapNext, Key(HeapNext, a)).kind = "cell"
                /\ Node(HeapNext, Key(HeapNext, a)).formula # NoFormula)
               => \A p \in CellsRead(HeapNext, Key(HeapNext, a)) :
                     InMap(HeapNext, p)
            /\ evaluate(HeapNext, a).h.err # "KeyError"]_vars

\* C29: in every state, trimmed or not, the nodes a set_value resets, other
\* than the written target, are ranges or cells that have a formula: a cell
\* without a formula that is not the target keeps its cached value.
C29_CascadeSparesLiterals ==
    [][(/\ last'.op = "set_value" /\ last'.err = ""
        /\ InMap(Heap, last'.addrs[1])) =>
        LET T == Key(Heap, last'.addrs[1])
            R == SeqToSet(set_value(Heap, last'.addrs[1], last'.val).resets)
        IN  /\ \A k \in R \ {T} :
                  \/ Node(Heap, k).kind = "range"
                  \/ Node(Heap, k).formula # NoFormula
            /\ \A k \in AllKeys(Heap) \ {T} :
                  (/\ Node(Heap, k).kind = "cell"
                   /\ Node(Heap, k).formula = NoFormula)
                  => Node(HeapNext, k).value = Node(Heap, k).value]_vars

\* The addresses a node of the workbook reads: the operands of a formula,
\* the members of a bounded range, the range an unbounded one resolves to.
SheetReads(a) ==
    IF a \in UnboundedRanges THEN {ResolvedAddress(a)}
    ELSE IF a \in BoundedRanges THEN SeqToSet(flatten(resolve_range(a)))
    ELSE SeqToSet(SheetFormula(a).args)

\* The formula-dependency depth of an address off the circular reference:
\* the nodes on the longest chain of reads that starts at it.
RECURSIVE DependencyDepth(_)
DependencyDepth(a) ==
    LET below == {DependencyDepth(p) : p \in SheetReads(a)}
    IN  1 + (IF below = {} THEN 0
             ELSE CHOOSE d \in below : \A e \in below : e <= d)

\* The deepest chain of reads among the addresses of a set.
DeepestOf(A) ==
    IF A = {} THEN 0
    ELSE CHOOSE d \in {DependencyDepth(a) : a \in A} :
             \A a \in A : DependencyDepth(a) <= d

\* No node of the circular reference is in the map.
Acyclic(h) == \A c \in CycleAddrs : ~InMap(h, c)

\* The address has no value: its node has none, or it has no node and the
\* workbook stores no value for it.
Unset(h, a) ==
    IF InMap(h, a) THEN Node(h, Key(h, a)).value = NoneV
    ELSE SheetValue(a, h.cached) = NoneV

\* The address has its formula: its node has, or it has no node yet.
HasFormula(h, a) ==
    InMap(h, a) => Node(h, Key(h, a)).formula # NoFormula

\* The call ended, by returning or by an exception of the code, with no more
\* nested _evaluate calls than bound.
EndsWithin(h, bound) == h.err # "RecursionError" /\ h.deep <= bound

\* No node was reset twice.
ResetOnce(h) ==
    \A i, j \in 1..Len(h.resets) : h.resets[i] = h.resets[j] => i = j

\* evaluate, _gen_graph, recalculate and trim_graph off the circular
\* reference end with the nesting of _evaluate calls bounded by the
\* formula-dependency depth, and a set_value resets no node twice, on the
\* circular reference too.
EndsOffCycle ==
    /\ (last'.op = "evaluate" /\ last'.addrs[1] \notin CycleAddrs)
       => EndsWithin(evaluate(Heap, last'.addrs[1]).h,
                     DependencyDepth(last'.addrs[1]))
    /\ (last'.op = "gen_graph" /\ last'.addrs[1] \notin CycleAddrs)
       => EndsWithin(_gen_graph(Heap, last'.addrs[1], FALSE),
                     DependencyDepth(last'.addrs[1]))
    /\ (last'.op = "recalculate" /\ Acyclic(Heap))
       => EndsWithin(recalculate(Heap), DeepestOf(InMapAddrs(Heap)))
    /\ (/\ last'.op = "trim_graph" /\ Acyclic(Heap)
        /\ SeqToSet(last'.outs) \cap CycleAddrs = {})
       => EndsWithin(trim_graph(Heap, last'.addrs, last'.outs),
                     DeepestOf(SeqToSet(last'.outs)))
    /\ last'.op = "set_value"
       => ResetOnce(set_value(Heap, last'.addrs[1], last'.val))

NothingRemoved ==
    /\ \A a \in AllAddrs : InMap(Heap, a) => cell_map'[a] = cell_map[a]
    /\ gnodes \subseteq gnodes'
    /\ gedges \subseteq gedges'

\* C31: set_value adds and removes no node and no edge; evaluate and
\* _gen_graph remove no node and no edge and replace no node of the map by a
\* new one; a step that takes an address out of the map is a trim_graph.
C31_NodeLifecycle ==
    [][/\ last'.op = "set_value" =>
             /\ cell_map' = cell_map
             /\ \A a \in AllAddrs : Len(objs'[a]) = Len(objs[a])
             /\ gnodes' = gnodes /\ gedges' = gedges
       /\ last'.op \in {"evaluate", "gen_graph", "gen_graph_seeds"} =>
             NothingRemoved
       /\ (\E a \in AllAddrs : InMap(Heap, a) /\ ~InMap(HeapNext, a)) =>
             last'.op = "trim_graph"]_vars

====
